---- MODULE Spec2Model ----
(***************************************************************************)
(* Guardian share distribution, secret key share reconstruction, joint     *)
(* election public key and ciphertext scaling of electionguard-rust        *)
(* (eg/src/guardian_share.rs, eg/src/joint_election_public_key.rs).        *)
(*                                                                         *)
(* The 4096-bit group of STANDARD_PARAMETERS is replaced by the order-5    *)
(* subgroup of Z_11^* generated by 3, and n = 5, k = 3 by n = 3, k = 2, so  *)
(* that the secret polynomials can be enumerated.  Byte strings are        *)
(* sequences of numbers in 0..255; the lengths 512 (mod p values) and 32   *)
(* (mod q values, hash values) become the byte lengths of p and q.         *)
(***************************************************************************)
EXTENDS Integers, Sequences, FiniteSets, TLC

VARIABLES
    guardian_secret_keys,   \* guardian index -> GuardianSecretKey, for the guardians generated
    encrypted_share,        \* the GuardianEncryptedShare last made by new, or NoShare
    decrypt_call,           \* the last decrypt_and_validate call: its arguments and result
    share_vec,              \* the encrypted shares dealt so far to the current recipient
    key_shares,             \* the GuardianSecretKeyShare::compute results, recipient 1 first
    compute_call,           \* a GuardianSecretKeyShare::compute call: its arguments and result
    joint_keys,             \* <<joint_key_1, joint_key_2>> of test_key_sharing, or <<>>
    joint_call,             \* a JointElectionPublicKey::compute call: its list and result
    permuted_call,          \* the call on a permutation of that list
    scale_call,             \* a Ciphertext::scale call: self, factor and result
    held_key,               \* the JointElectionPublicKey in use and where it came from
    encrypt_call,           \* an encrypt_with call: nonce, vote, result, and its scaling
    subset_call             \* an interpolation over some of the points (i, p_i)

vars == <<guardian_secret_keys, encrypted_share, decrypt_call,
          share_vec, key_shares, compute_call, joint_keys,
          joint_call, permuted_call, scale_call,
          held_key, encrypt_call, subset_call>>

encryptVars == <<held_key, encrypt_call>>

jointVars == <<joint_call, permuted_call>>

shareVars == <<guardian_secret_keys, encrypted_share, decrypt_call>>
keyShareVars == <<share_vec, key_shares, compute_call, joint_keys>>

-----------------------------------------------------------------------------
(* Bounds of the model *)

\* csprng draws for secret coefficients are taken from both ends of [0, q):
\* 0 and the MaxCoeff largest values
MaxCoeff == 1

-----------------------------------------------------------------------------
(* Election parameters *)

example_election_parameters ==
    [fixed_parameters   |-> [p |-> 11, q |-> 5, g |-> 3],
     varying_parameters |-> [n |-> 3, k |-> 2]]

h_p_example == [pre |-> <<>>, bytes |-> <<167>>]

-----------------------------------------------------------------------------
(* Big integers and bytes *)

Min(a, b) == IF a < b THEN a ELSE b

RECURSIVE modpow(_, _, _)
modpow(base, exp, m) ==
    IF exp = 0 THEN 1 % m
    ELSE (base * modpow(base, exp - 1, m)) % m

RECURSIVE to_bytes_be(_)
to_bytes_be(x) ==
    IF x < 256 THEN <<x>> ELSE to_bytes_be(x \div 256) \o <<x % 256>>

RECURSIVE from_bytes_be(_)
from_bytes_be(bytes) ==
    IF bytes = <<>> THEN 0
    ELSE 256 * from_bytes_be(SubSeq(bytes, 1, Len(bytes) - 1)) + bytes[Len(bytes)]

to_be_bytes_left_pad(x, len) ==
    LET v == to_bytes_be(x)
    IN  IF Len(v) < len THEN [j \in 1..(len - Len(v)) |-> 0] \o v ELSE v

ByteLen(x) == Len(to_bytes_be(x))

\* 512 in the source: the byte length of p of the standard parameters
L_p(fixed_parameters) == ByteLen(fixed_parameters.p)

\* 32 in the source: the byte length of q and of an HValue
L_q(fixed_parameters) == ByteLen(fixed_parameters.q)

RECURSIVE xor_byte(_, _, _)
xor_byte(a, b, nbits) ==
    IF nbits = 0 THEN 0
    ELSE ((a + b) % 2) + 2 * xor_byte(a \div 2, b \div 2, nbits - 1)

xor(a, b) == [j \in 1..Min(Len(a), Len(b)) |-> xor_byte(a[j], b[j], 8)]

u32_to_be_bytes(x) == to_be_bytes_left_pad(x, 4)

-----------------------------------------------------------------------------
(* Keyed hash.  An HValue is its bytes together with the input that produced *)
(* them, so that two HValues are equal only if they hash the same input: H *)
(* is collision free.  The bytes, which new and decrypt_and_validate use as *)
(* the XOR pad, stand for those of HMAC-SHA-256: they mix the key with the  *)
(* length of the data and its first, middle and last two bytes.            *)

Mix(key_bytes, data) ==
    LET len == Len(data)
    IN  (key_bytes[1] * 31 + 7 * len + 3 * data[1] + 5 * data[(len + 1) \div 2]
         + 11 * data[len] + 13 * data[IF len > 1 THEN len - 1 ELSE 1]) % 256

eg_h(key, data) ==
    [pre |-> <<key, data>>, bytes |-> <<Mix(key.bytes, data)>>]

-----------------------------------------------------------------------------
(* Guardian keys *)

Ok(v) == [ok |-> TRUE, value |-> v, err |-> ""]
Err(e) == [ok |-> FALSE, value |-> 0, err |-> e]

GuardianSecretKey_generate(election_parameters, i, coefficients) ==
    LET fp == election_parameters.fixed_parameters
    IN  [i |-> i,
         secret_coefficients |-> coefficients,
         coefficient_commitments |->
             [j \in 1..Len(coefficients) |-> modpow(fp.g, coefficients[j], fp.p)]]

make_public_key(sk) ==
    [i |-> sk.i, coefficient_commitments |-> sk.coefficient_commitments]

secret_s(sk) == sk.secret_coefficients[1]

public_key_k_i_0(pk) == pk.coefficient_commitments[1]

-----------------------------------------------------------------------------
(* GuardianEncryptedShare *)

NoShare == [dealer |-> 0, recipient |-> 0, c0 |-> 0, c1 |-> 0, c2 |-> [pre |-> <<>>, bytes |-> <<>>]]

\* v = 0x11 | b(i, 4) | b(l, 4) | b(capital_k, 512) | b(alpha, 512) | b(beta, 512)
secret_key(fixed_parameters, h_p, i, l, capital_k_l, alpha, beta) ==
    LET v == <<17>> \o u32_to_be_bytes(i) \o u32_to_be_bytes(l)
                 \o to_be_bytes_left_pad(capital_k_l, L_p(fixed_parameters))
                 \o to_be_bytes_left_pad(alpha, L_p(fixed_parameters))
                 \o to_be_bytes_left_pad(beta, L_p(fixed_parameters))
    IN  eg_h(h_p, v)

hmac(key, data) == eg_h(key, data)

\* "share_enc_keys"
label_bytes == <<115, 104, 97, 114, 101, 95, 101, 110, 99, 95, 107, 101, 121, 115>>

\* "share_encrypt"
context_bytes == <<115, 104, 97, 114, 101, 95, 101, 110, 99, 114, 121, 112, 116>>

\* <<k1, k2>>: the MAC key and the encryption key
mac_and_encryption_key(i, l, k_i_l) ==
    LET context == context_bytes \o u32_to_be_bytes(i) \o u32_to_be_bytes(l)
        k1 == hmac(k_i_l, <<1>> \o label_bytes \o <<0>> \o context \o <<2, 0>>)
        k2 == hmac(k_i_l, <<2>> \o label_bytes \o <<0>> \o context \o <<2, 0>>)
    IN  <<k1, k2>>

\* mutant: the MAC covers c0 only
share_mac_c0_only(k0, c0, c1) == hmac(k0, c0)

share_mac(k0, c0, c1) == hmac(k0, c0 \o c1)

\* mutant: the evaluation is not reduced mod q
RECURSIVE horner_unreduced(_, _, _, _)
horner_unreduced(p_l, coefficients, x, q) ==
    IF coefficients = <<>> THEN p_l
    ELSE horner_unreduced(p_l * x + coefficients[Len(coefficients)],
                          SubSeq(coefficients, 1, Len(coefficients) - 1), x, q)

\* for coeff in secret_coefficients.rev() { p_l = (p_l * x + coeff) % q }
RECURSIVE horner(_, _, _, _)
horner(p_l, coefficients, x, q) ==
    IF coefficients = <<>> THEN p_l
    ELSE horner((p_l * x + coefficients[Len(coefficients)]) % q,
                SubSeq(coefficients, 1, Len(coefficients) - 1), x, q)

\* GuardianEncryptedShare::new; xi is the draw csprng.next_biguint_lt(q)
new(xi, election_parameters, h_p, dealer_private_key, recipient_public_key) ==
    LET fixed_parameters == election_parameters.fixed_parameters
        i == dealer_private_key.i
        l == recipient_public_key.i
        q == fixed_parameters.q
        p == fixed_parameters.p
        capital_k == public_key_k_i_0(recipient_public_key)
        alpha == modpow(fixed_parameters.g, xi, p)
        beta == modpow(capital_k, xi, p)
        k_i_l == secret_key(fixed_parameters, h_p, i, l, capital_k, alpha, beta)
        keys == mac_and_encryption_key(i, l, k_i_l)
        k0 == keys[1]
        k1 == keys[2]
        p_l == horner(0, dealer_private_key.secret_coefficients, l, q)
        c1 == xor(to_be_bytes_left_pad(p_l, L_q(fixed_parameters)), k1.bytes)
        c2 == share_mac(k0, to_be_bytes_left_pad(alpha, L_p(fixed_parameters)), c1)
    IN  [dealer |-> dealer_private_key.i,
         recipient |-> recipient_public_key.i,
         c0 |-> alpha,
         c1 |-> from_bytes_be(c1),
         c2 |-> c2]

\* the steps of decrypt_and_validate after the index checks
decrypt_checked(self, election_parameters, h_p, recipient_secret_key) ==
    LET i == self.dealer
        l == self.recipient
        fixed_parameters == election_parameters.fixed_parameters
        p == fixed_parameters.p
        capital_k == recipient_secret_key.coefficient_commitments[1]
        alpha == self.c0
        beta == modpow(alpha, secret_s(recipient_secret_key), p)
        k_i_l == secret_key(fixed_parameters, h_p, i, l, capital_k, alpha, beta)
        keys == mac_and_encryption_key(i, l, k_i_l)
        k0 == keys[1]
        k1 == keys[2]
        mac == share_mac(k0,
                         to_be_bytes_left_pad(alpha, L_p(fixed_parameters)),
                         to_be_bytes_left_pad(self.c1, L_q(fixed_parameters)))
    IN  IF mac # self.c2
        THEN Err("The MAC does not verify.")
        ELSE Ok(from_bytes_be(xor(to_be_bytes_left_pad(self.c1, L_q(fixed_parameters)),
                                  k1.bytes)))

\* mutant: the recipient index is not checked
decrypt_and_validate_no_recipient_check(self, election_parameters, h_p, dealer_public_key, recipient_secret_key) ==
    IF self.dealer # dealer_public_key.i
    THEN Err("The indices for the dealer must match.")
    ELSE decrypt_checked(self, election_parameters, h_p, recipient_secret_key)

decrypt_and_validate(self, election_parameters, h_p, dealer_public_key, recipient_secret_key) ==
    IF self.dealer # dealer_public_key.i
    THEN Err("The indices for the dealer must match.")
    ELSE IF self.recipient # recipient_secret_key.i
    THEN Err("The indices for the dealer must match.")
    ELSE decrypt_checked(self, election_parameters, h_p, recipient_secret_key)

-----------------------------------------------------------------------------
(* GuardianSecretKeyShare and the coverage check *)

NoError == [msg |-> "", args |-> <<>>]
ComputeOk(i, p_i) == [ok |-> TRUE, i |-> i, p_i |-> p_i, err |-> NoError]
ComputeErr(msg, args) == [ok |-> FALSE, i |-> 0, p_i |-> 0, err |-> [msg |-> msg, args |-> args]]

is_valid_modp(fixed_parameters, x) == x >= 0 /\ x < fixed_parameters.p

\* GuardianPublicKey::validate: the index is in [1, n] and every commitment is
\* a mod-p residue of the order-q subgroup
GuardianPublicKey_validate(pk, election_parameters) ==
    LET fixed_parameters == election_parameters.fixed_parameters
    IN  /\ pk.i \in 1..election_parameters.varying_parameters.n
        /\ \A j \in 1..Len(pk.coefficient_commitments) :
               /\ is_valid_modp(fixed_parameters, pk.coefficient_commitments[j])
               /\ modpow(pk.coefficient_commitments[j], fixed_parameters.q,
                         fixed_parameters.p) = 1

\* the first guardian public key that fails validate, or 0
RECURSIVE first_invalid(_, _, _)
first_invalid(guardian_public_keys, election_parameters, j) ==
    IF j > Len(guardian_public_keys) THEN 0
    ELSE IF ~GuardianPublicKey_validate(guardian_public_keys[j], election_parameters) THEN j
    ELSE first_invalid(guardian_public_keys, election_parameters, j + 1)

\* mutant: a guardian seen already is let through
RECURSIVE mark_seen_no_ensure(_, _)
mark_seen_no_ensure(guardian_public_keys, seen) ==
    IF guardian_public_keys = <<>> THEN [dup |-> 0, seen |-> seen]
    ELSE mark_seen_no_ensure(Tail(guardian_public_keys),
                             [seen EXCEPT ![Head(guardian_public_keys).i - 1] = TRUE])

\* the loop over seen: dup is the guardian found seen already, or 0
RECURSIVE mark_seen(_, _)
mark_seen(guardian_public_keys, seen) ==
    IF guardian_public_keys = <<>> THEN [dup |-> 0, seen |-> seen]
    ELSE LET seen_ix == Head(guardian_public_keys).i - 1
         IN  IF seen[seen_ix]
             THEN [dup |-> Head(guardian_public_keys).i, seen |-> seen]
             ELSE mark_seen(Tail(guardian_public_keys), [seen EXCEPT ![seen_ix] = TRUE])

\* seen.iter().enumerate().filter(not seen).map(ix).collect(): zero-based
RECURSIVE missing_guardian_ixs(_, _, _)
missing_guardian_ixs(seen, ix, n) ==
    IF ix >= n THEN <<>>
    ELSE (IF seen[ix] THEN <<>> ELSE <<ix>>) \o missing_guardian_ixs(seen, ix + 1, n)

\* mutant: the closure runs and the text holds guardian_i = ix + 1
fmt_debug_iter_one_based(ixs) == [j \in 1..Len(ixs) |-> ixs[j] + 1]

\* {iter:?} of the Map over Enumerate over the slice iterator: the closure that
\* makes guardian_i = ix + 1 never runs, and Debug prints the adaptor,
\* Map { iter: Enumerate { iter: Iter([ixs]), count: 0 } }.  The numbers the
\* text holds are those of the slice.
fmt_debug_iter(ixs) == ixs

\* validation and coverage of the guardian public keys, common to both compute
\* functions: NoError, or the error returned
check_guardian_public_keys(election_parameters, guardian_public_keys) ==
    LET n == election_parameters.varying_parameters.n
        bad == first_invalid(guardian_public_keys, election_parameters, 1)
        marked == mark_seen(guardian_public_keys, [ix \in 0..(n - 1) |-> FALSE])
        missing == missing_guardian_ixs(marked.seen, 0, n)
    IN  IF bad # 0
        THEN [msg |-> "GuardianPublicKey::validate", args |-> <<bad>>]
        ELSE IF marked.dup # 0
        THEN [msg |-> "Guardian {} is represented more than once in the guardian public keys",
              args |-> <<marked.dup>>]
        ELSE IF missing # <<>>
        THEN [msg |-> "Guardian(s) {iter:?} are not represented in the guardian public keys",
              args |-> fmt_debug_iter(missing)]
        ELSE NoError

\* mutant: a failed share counts as 0 and the loop goes on
RECURSIVE decrypt_shares_zero_on_failure(_, _, _, _, _, _)
decrypt_shares_zero_on_failure(election_parameters, h_p, guardian_public_keys, encrypted_shares, recipient_secret_key, shares) ==
    IF guardian_public_keys = <<>> \/ encrypted_shares = <<>>
    THEN [failed |-> 0, shares |-> shares]
    ELSE LET res == decrypt_and_validate(Head(encrypted_shares), election_parameters, h_p,
                                         Head(guardian_public_keys), recipient_secret_key)
         IN  decrypt_shares_zero_on_failure(election_parameters, h_p,
                 Tail(guardian_public_keys), Tail(encrypted_shares), recipient_secret_key,
                 Append(shares, IF res.ok THEN res.value ELSE 0))

\* for (pk, share) in zip(guardian_public_keys, encrypted_shares): failed is the
\* guardian of the public key whose share did not decrypt, or 0
RECURSIVE decrypt_shares(_, _, _, _, _, _)
decrypt_shares(election_parameters, h_p, guardian_public_keys, encrypted_shares, recipient_secret_key, shares) ==
    IF guardian_public_keys = <<>> \/ encrypted_shares = <<>>
    THEN [failed |-> 0, shares |-> shares]
    ELSE LET res == decrypt_and_validate(Head(encrypted_shares), election_parameters, h_p,
                                         Head(guardian_public_keys), recipient_secret_key)
         IN  IF ~res.ok
             THEN [failed |-> Head(guardian_public_keys).i, shares |-> shares]
             ELSE decrypt_shares(election_parameters, h_p,
                      Tail(guardian_public_keys), Tail(encrypted_shares),
                      recipient_secret_key, Append(shares, res.value))

\* mutant: the first share is left out of the sum
RECURSIVE fold_shares_skip_first(_, _, _)
fold_shares_skip_first(acc, shares, q) ==
    IF Len(shares) <= 1 THEN acc
    ELSE fold_shares_skip_first((acc + shares[Len(shares)]) % q,
                                SubSeq(shares, 1, Len(shares) - 1), q)

\* shares.iter().fold(0, |acc, share| (acc + share) % q)
RECURSIVE fold_shares(_, _, _)
fold_shares(acc, shares, q) ==
    IF shares = <<>> THEN acc
    ELSE fold_shares((acc + Head(shares)) % q, Tail(shares), q)

\* GuardianSecretKeyShare::compute
compute(election_parameters, h_p, guardian_public_keys, encrypted_shares, recipient_secret_key) ==
    LET fixed_parameters == election_parameters.fixed_parameters
        checked == check_guardian_public_keys(election_parameters, guardian_public_keys)
        decrypted == decrypt_shares(election_parameters, h_p, guardian_public_keys,
                                    encrypted_shares, recipient_secret_key, <<>>)
    IN  IF checked # NoError
        THEN ComputeErr(checked.msg, checked.args)
        ELSE IF decrypted.failed # 0
        THEN ComputeErr("Could not decrypt and validate share from guardian {}",
                        <<decrypted.failed>>)
        ELSE ComputeOk(recipient_secret_key.i,
                       fold_shares(0, decrypted.shares, fixed_parameters.q))

-----------------------------------------------------------------------------
(* JointElectionPublicKey *)

JointOk(k) == [ok |-> TRUE, joint_election_public_key |-> k, err |-> NoError]
JointErr(e) == [ok |-> FALSE, joint_election_public_key |-> 0, err |-> e]

\* mutant: the accumulator is replaced, not multiplied
RECURSIVE fold_product_keep_last(_, _, _)
fold_product_keep_last(acc, guardian_public_keys, p) ==
    IF guardian_public_keys = <<>> THEN acc
    ELSE fold_product_keep_last(public_key_k_i_0(Head(guardian_public_keys)) % p,
                                Tail(guardian_public_keys), p)

\* guardian_public_keys.iter().fold(1, |acc, pk| (acc * pk.public_key_k_i_0()) % p)
RECURSIVE fold_product(_, _, _)
fold_product(acc, guardian_public_keys, p) ==
    IF guardian_public_keys = <<>> THEN acc
    ELSE fold_product((acc * public_key_k_i_0(Head(guardian_public_keys))) % p,
                      Tail(guardian_public_keys), p)

JointElectionPublicKey_compute(election_parameters, guardian_public_keys) ==
    LET checked == check_guardian_public_keys(election_parameters, guardian_public_keys)
    IN  IF checked # NoError
        THEN JointErr(checked)
        ELSE JointOk(fold_product(1, guardian_public_keys,
                                  election_parameters.fixed_parameters.p))

NoJoint == [guardian_public_keys |-> <<>>, result |-> JointErr(NoError)]

-----------------------------------------------------------------------------
(* Ciphertext *)

Ciphertext(alpha, beta) == [alpha |-> alpha, beta |-> beta]

Ciphertext_one == Ciphertext(1, 1)

\* mutant: the components are multiplied by the factor, not raised to it
scale_by_multiplication(self, fixed_parameters, factor) ==
    Ciphertext((self.alpha * factor) % fixed_parameters.p,
               (self.beta * factor) % fixed_parameters.p)

\* mutant: only alpha is raised to the factor
scale_alpha_only(self, fixed_parameters, factor) ==
    Ciphertext(modpow(self.alpha, factor, fixed_parameters.p), self.beta)

scale(self, fixed_parameters, factor) ==
    LET alpha == modpow(self.alpha, factor, fixed_parameters.p)
        beta == modpow(self.beta, factor, fixed_parameters.p)
    IN  Ciphertext(alpha, beta)

\* impl PartialEq for Ciphertext
Ciphertext_eq(self, other) == self.alpha = other.alpha /\ self.beta = other.beta

NoScale == [self |-> Ciphertext(0, 0), factor |-> -1, result |-> Ciphertext(0, 0)]

\* mutant: the vote is encoded on the base g, as g^vote * K^nonce
encrypt_with_vote_on_g(self, fixed_parameters, nonce, vote) ==
    Ciphertext(modpow(fixed_parameters.g, nonce, fixed_parameters.p),
               (modpow(fixed_parameters.g, vote, fixed_parameters.p)
                * modpow(self.joint_election_public_key, nonce, fixed_parameters.p))
                   % fixed_parameters.p)

encrypt_with(self, fixed_parameters, nonce, vote) ==
    LET alpha == modpow(fixed_parameters.g, nonce, fixed_parameters.p)
        beta == modpow(self.joint_election_public_key, nonce + vote, fixed_parameters.p)
    IN  Ciphertext(alpha, beta)

\* JointElectionPublicKey::validate: is_valid_modp(K)
JointElectionPublicKey_validate(self, election_parameters) ==
    is_valid_modp(election_parameters.fixed_parameters, self.joint_election_public_key)

NoKey == [joint_election_public_key |-> 0, origin |-> ""]

NoEncrypt ==
    [nonce |-> -1, vote |-> -1, result |-> Ciphertext(0, 0),
     factor |-> -1, scaled |-> Ciphertext(0, 0)]

NoSubset == [xs |-> <<>>, ys |-> <<>>, result |-> -1]

-----------------------------------------------------------------------------
(* Lagrange interpolation of the tests *)

\* the loop of mod_inverse on t = (t0, t1) and r = (r0, r1); -1 is None
RECURSIVE mod_inverse_loop(_, _, _, _, _)
mod_inverse_loop(t0, t1, r0, r1, m) ==
    IF r1 = 0
    THEN IF r0 = 1 THEN (IF t0 < 0 THEN t0 + m ELSE t0) ELSE -1
    ELSE LET quot == r0 \div r1
         IN  mod_inverse_loop(t1, t0 - quot * t1, r1, r0 - quot * r1, m)

mod_inverse(a_u, m_u) ==
    IF m_u = 0 THEN -1 ELSE mod_inverse_loop(0, 1, m_u, a_u, m_u)

subtract_group_elem(a, b, q) == ((a % q) + q - (b % q)) % q

\* mutant: the difference is taken as i - l
RECURSIVE lagrange_coeff_swapped(_, _, _, _)
lagrange_coeff_swapped(acc, xs, i, q) ==
    IF xs = <<>> THEN acc
    ELSE IF Head(xs) = i THEN lagrange_coeff_swapped(acc, Tail(xs), i, q)
    ELSE lagrange_coeff_swapped(
             (acc * (Head(xs) * mod_inverse(subtract_group_elem(i, Head(xs), q), q))) % q,
             Tail(xs), i, q)

\* b_i: the product over l in xs, l # i, of l * (l - i)^-1, reduced mod q
RECURSIVE lagrange_coeff(_, _, _, _)
lagrange_coeff(acc, xs, i, q) ==
    IF xs = <<>> THEN acc
    ELSE IF Head(xs) = i THEN lagrange_coeff(acc, Tail(xs), i, q)
    ELSE lagrange_coeff(
             (acc * (Head(xs) * mod_inverse(subtract_group_elem(Head(xs), i, q), q))) % q,
             Tail(xs), i, q)

RECURSIVE lagrange_sum(_, _, _, _)
lagrange_sum(acc, coeffs, ys, q) ==
    IF coeffs = <<>> \/ ys = <<>> THEN acc
    ELSE lagrange_sum((acc + ((Head(coeffs) * Head(ys)) % q)) % q, Tail(coeffs), Tail(ys), q)

lagrange_interpolation_at_zero(xs, ys, q) ==
    lagrange_sum(0, [j \in 1..Len(xs) |-> lagrange_coeff(1, xs, xs[j], q)], ys, q)

-----------------------------------------------------------------------------
(* Inputs *)

Coefficients(election_parameters) ==
    LET q == election_parameters.fixed_parameters.q
    IN  {0} \cup {c \in 0..(q - 1) : c >= q - MaxCoeff}

\* the draws of csprng.next_biguint_lt(q) for an encryption nonce
Nonces(election_parameters) == 0..(election_parameters.fixed_parameters.q - 1)

GuardianIndices(election_parameters) == 1..election_parameters.varying_parameters.n

SecretCoefficients(election_parameters) ==
    [1..election_parameters.varying_parameters.k -> Coefficients(election_parameters)]

RECURSIVE pow2(_)
pow2(b) == IF b = 0 THEN 1 ELSE 2 * pow2(b - 1)

FlipBit(x, b) == IF (x \div pow2(b)) % 2 = 1 THEN x - pow2(b) ELSE x + pow2(b)

\* a share as it arrives with one bit of c0, c1 or c2 changed in transit
FlipC0(share, b) == [share EXCEPT !.c0 = FlipBit(@, b)]
FlipC1(share, b) == [share EXCEPT !.c1 = FlipBit(@, b)]
FlipC2(share, b) == [share EXCEPT !.c2.bytes[1 + (b \div 8)] = FlipBit(@, b % 8)]

BitsP(election_parameters) == 0..(8 * L_p(election_parameters.fixed_parameters) - 1)
BitsQ(election_parameters) == 0..(8 * L_q(election_parameters.fixed_parameters) - 1)

Tampered(share, election_parameters) ==
    {FlipC0(share, b) : b \in BitsP(election_parameters)}
    \cup {FlipC1(share, b) : b \in BitsQ(election_parameters)}
    \cup {FlipC2(share, b) : b \in BitsQ(election_parameters)}

NoCall == [share |-> NoShare, dealer |-> 0, recipient |-> 0, result |-> Err("")]

NoCompute ==
    [guardian_public_keys |-> <<>>, encrypted_shares |-> <<>>, recipient |-> 0,
     result |-> ComputeErr("", <<>>)]

Reverse(seq) == [j \in 1..Len(seq) |-> seq[Len(seq) + 1 - j]]

-----------------------------------------------------------------------------
(* One dealer and one recipient: new and decrypt_and_validate *)

ShareInit ==
    /\ guardian_secret_keys = <<>>
    /\ encrypted_share = NoShare
    /\ decrypt_call = NoCall
    /\ share_vec = <<>>
    /\ key_shares = <<>>
    /\ compute_call = NoCompute
    /\ joint_keys = <<>>
    /\ joint_call = NoJoint
    /\ permuted_call = NoJoint
    /\ scale_call = NoScale
    /\ held_key = NoKey
    /\ encrypt_call = NoEncrypt
    /\ subset_call = NoSubset

\* GuardianSecretKey::generate for guardian i; at most two guardians take part
GenerateKey(i, coefficients) ==
    /\ encrypted_share = NoShare
    /\ i \notin DOMAIN guardian_secret_keys
    /\ Cardinality(DOMAIN guardian_secret_keys) < 2
    /\ guardian_secret_keys' = (i :> GuardianSecretKey_generate(
                                      example_election_parameters, i, coefficients))
                               @@ guardian_secret_keys
    /\ UNCHANGED <<encrypted_share, decrypt_call, keyShareVars, jointVars, scale_call, encryptVars, subset_call>>

\* dealer i encrypts its share for recipient l
NewShare(i, l, xi) ==
    /\ encrypted_share = NoShare
    /\ DOMAIN guardian_secret_keys = {i, l}
    /\ encrypted_share' = new(xi, example_election_parameters, h_p_example,
                              guardian_secret_keys[i],
                              make_public_key(guardian_secret_keys[l]))
    /\ UNCHANGED <<guardian_secret_keys, decrypt_call, keyShareVars, jointVars, scale_call, encryptVars, subset_call>>

\* the recipient's call, on the share as received and with the keys it is given
DecryptAndValidate(received, j, m) ==
    /\ encrypted_share # NoShare
    /\ decrypt_call = NoCall
    /\ decrypt_call' =
           [share |-> received, dealer |-> j, recipient |-> m,
            result |-> decrypt_and_validate(received, example_election_parameters,
                           h_p_example, make_public_key(guardian_secret_keys[j]),
                           guardian_secret_keys[m])]
    /\ UNCHANGED <<guardian_secret_keys, encrypted_share, keyShareVars, jointVars, scale_call, encryptVars, subset_call>>

Received ==
    IF encrypted_share = NoShare THEN {}
    ELSE {encrypted_share} \cup Tampered(encrypted_share, example_election_parameters)

ShareNext ==
    \/ \E i \in GuardianIndices(example_election_parameters),
          coefficients \in SecretCoefficients(example_election_parameters) :
            GenerateKey(i, coefficients)
    \/ \E i, l \in GuardianIndices(example_election_parameters),
          xi \in Nonces(example_election_parameters) :
            NewShare(i, l, xi)
    \/ \E received \in Received, j, m \in DOMAIN guardian_secret_keys :
            DecryptAndValidate(received, j, m)

ShareSpec == ShareInit /\ [][ShareNext]_vars

-----------------------------------------------------------------------------
(* All guardians: the key sharing of test_key_sharing, recipient by recipient *)

\* the nonces drawn while dealing
DealNonces(election_parameters) == {1, election_parameters.fixed_parameters.q - 1}

NumGuardians == example_election_parameters.varying_parameters.n

guardian_public_keys ==
    [j \in 1..Len(guardian_secret_keys) |-> make_public_key(guardian_secret_keys[j])]

\* the recipient whose shares are being dealt
recipient_i == Len(key_shares) + 1

KeyShareInit == ShareInit

\* GuardianSecretKey::generate for the next guardian of each_guardian_i()
GenerateGuardian(coefficients) ==
    /\ compute_call = NoCompute
    /\ Len(guardian_secret_keys) < NumGuardians
    /\ guardian_secret_keys' =
           Append(guardian_secret_keys,
                  GuardianSecretKey_generate(example_election_parameters,
                                             Len(guardian_secret_keys) + 1, coefficients))
    /\ UNCHANGED <<encrypted_share, decrypt_call, keyShareVars, jointVars, scale_call, encryptVars, subset_call>>

\* the next dealer encrypts its share for the current recipient
Deal(xi) ==
    /\ compute_call = NoCompute
    /\ Len(guardian_secret_keys) = NumGuardians
    /\ recipient_i <= NumGuardians
    /\ Len(share_vec) < NumGuardians
    /\ share_vec' = Append(share_vec,
                           new(xi, example_election_parameters, h_p_example,
                               guardian_secret_keys[Len(share_vec) + 1],
                               guardian_public_keys[recipient_i]))
    /\ UNCHANGED <<shareVars, key_shares, compute_call, joint_keys, jointVars, scale_call, encryptVars, subset_call>>

\* the current recipient computes its key share from the shares dealt to it
ComputeKeyShare ==
    /\ compute_call = NoCompute
    /\ Len(share_vec) = NumGuardians
    /\ key_shares' = Append(key_shares,
                            compute(example_election_parameters, h_p_example,
                                    guardian_public_keys, share_vec,
                                    guardian_secret_keys[recipient_i]))
    /\ share_vec' = <<>>
    /\ UNCHANGED <<shareVars, compute_call, joint_keys, jointVars, scale_call, encryptVars, subset_call>>

\* the shares dealt so far to the current recipient (fewer than n while dealing
\* goes on) and, once all are dealt: one share too many, the shares in the
\* reverse order, and the shares with one bit of one c1 changed
ShareLists ==
    {share_vec}
    \cup IF Len(share_vec) = NumGuardians
         THEN {share_vec \o <<share_vec[1]>>, Reverse(share_vec)}
              \cup {[share_vec EXCEPT ![j] = FlipC1(@, 0)] : j \in 1..NumGuardians}
         ELSE {}

\* the lists a caller may pass: the public keys in guardian order with each of
\* the share lists and, once all shares are dealt, the public keys in the
\* reverse order with the shares in either order
ComputeArguments ==
    {<<guardian_public_keys, shares>> : shares \in ShareLists}
    \cup IF Len(share_vec) = NumGuardians
         THEN {<<Reverse(guardian_public_keys), share_vec>>,
               <<Reverse(guardian_public_keys), Reverse(share_vec)>>}
         ELSE {}

\* a call of GuardianSecretKeyShare::compute by the current recipient
ComputeWith(public_keys, shares) ==
    /\ compute_call = NoCompute
    /\ Len(guardian_secret_keys) = NumGuardians
    /\ recipient_i <= NumGuardians
    /\ compute_call' =
           [guardian_public_keys |-> public_keys,
            encrypted_shares |-> shares,
            recipient |-> recipient_i,
            result |-> compute(example_election_parameters, h_p_example, public_keys,
                               shares, guardian_secret_keys[recipient_i])]
    /\ UNCHANGED <<shareVars, share_vec, key_shares, joint_keys, jointVars, scale_call, encryptVars, subset_call>>

\* guardian_secret_keys.iter().fold(0, |acc, sk| (acc + sk.secret_s()) % q)
RECURSIVE joint_key_1(_, _, _)
joint_key_1(acc, secret_keys, q) ==
    IF secret_keys = <<>> THEN acc
    ELSE joint_key_1((acc + secret_s(Head(secret_keys))) % q, Tail(secret_keys), q)

joint_key_2(public_keys, shares, q) ==
    lagrange_interpolation_at_zero([j \in 1..Len(public_keys) |-> public_keys[j].i],
                                   [j \in 1..Len(shares) |-> shares[j].p_i], q)

\* the two joint keys the test compares
Interpolate ==
    /\ compute_call = NoCompute
    /\ Len(key_shares) = NumGuardians
    /\ \A j \in 1..NumGuardians : key_shares[j].ok
    /\ joint_keys = <<>>
    /\ joint_keys' =
           <<joint_key_1(0, guardian_secret_keys,
                         example_election_parameters.fixed_parameters.q),
             joint_key_2(guardian_public_keys, key_shares,
                         example_election_parameters.fixed_parameters.q)>>
    /\ UNCHANGED <<shareVars, share_vec, key_shares, compute_call, jointVars, scale_call, encryptVars, subset_call>>

\* the lists of distinct guardians whose points (i, p_i) are interpolated
PointLists ==
    {points \in UNION {[1..m -> 1..NumGuardians] : m \in 1..NumGuardians} :
         \A a, b \in 1..Len(points) : points[a] = points[b] => a = b}

\* lagrange_interpolation_at_zero over the points of some of the guardians
InterpolateSubset(points) ==
    /\ compute_call = NoCompute
    /\ Len(key_shares) = NumGuardians
    /\ \A j \in 1..NumGuardians : key_shares[j].ok
    /\ subset_call = NoSubset
    /\ LET xs == [j \in 1..Len(points) |-> guardian_public_keys[points[j]].i]
           ys == [j \in 1..Len(points) |-> key_shares[points[j]].p_i]
       IN  subset_call' =
               [xs |-> xs, ys |-> ys,
                result |-> lagrange_interpolation_at_zero(
                               xs, ys, example_election_parameters.fixed_parameters.q)]
    /\ UNCHANGED <<shareVars, keyShareVars, jointVars, scale_call, encryptVars>>

KeyShareNext ==
    \/ \E coefficients \in SecretCoefficients(example_election_parameters) :
           GenerateGuardian(coefficients)
    \/ \E xi \in DealNonces(example_election_parameters) : Deal(xi)
    \/ ComputeKeyShare
    \/ \E arguments \in ComputeArguments : ComputeWith(arguments[1], arguments[2])
    \/ Interpolate
    \/ \E points \in PointLists : InterpolateSubset(points)

KeyShareSpec == KeyShareInit /\ [][KeyShareNext]_vars

-----------------------------------------------------------------------------
(* Properties of new and decrypt_and_validate *)

RECURSIVE PolyEval(_, _, _)
\* a_0 + a_1 x + ... + a_{k-1} x^{k-1} mod q, summed term by term
PolyEval(coefficients, x, q) ==
    IF coefficients = <<>> THEN 0
    ELSE (PolyEval(SubSeq(coefficients, 1, Len(coefficients) - 1), x, q)
          + coefficients[Len(coefficients)] * modpow(x, Len(coefficients) - 1, q)) % q

\* the call was made on the share as new made it, with its dealer's public key
\* and its recipient's secret key
HonestCall ==
    /\ decrypt_call # NoCall
    /\ decrypt_call.share = encrypted_share
    /\ decrypt_call.dealer = encrypted_share.dealer
    /\ decrypt_call.recipient = encrypted_share.recipient

\* C1: decrypt_and_validate of a share made by new, with the dealer's public
\* key and the recipient's secret key, succeeds and returns the value of the
\* dealer's polynomial at x = l mod q, a value in [0, q), whatever the nonce.
C1_ShareRoundTrip ==
    HonestCall =>
        LET q == example_election_parameters.fixed_parameters.q
            dealer_sk == guardian_secret_keys[encrypted_share.dealer]
        IN  /\ decrypt_call.result.ok
            /\ decrypt_call.result.value
                   = PolyEval(dealer_sk.secret_coefficients, encrypted_share.recipient, q)
            /\ decrypt_call.result.value \in 0..(q - 1)

\* an honest call between two guardians, with a nonce other than 0, whose
\* share value needed the reduction mod q and is not 0
C1_Witness ==
    /\ HonestCall
    /\ encrypted_share.dealer # encrypted_share.recipient
    /\ encrypted_share.c0 # 1
    /\ decrypt_call.result.ok
    /\ decrypt_call.result.value # 0
    /\ LET a == guardian_secret_keys[encrypted_share.dealer].secret_coefficients
       IN  a[1] + a[2] * encrypted_share.recipient
               >= example_election_parameters.fixed_parameters.q

\* the call was made with the right keys on the share with one bit changed
TamperedCall ==
    /\ decrypt_call # NoCall
    /\ decrypt_call.share \in Tampered(encrypted_share, example_election_parameters)
    /\ decrypt_call.dealer = encrypted_share.dealer
    /\ decrypt_call.recipient = encrypted_share.recipient

\* C3: with one bit of c0, c1 or c2 changed, decrypt_and_validate with the
\* right keys fails with the MAC error and returns no value.
C3_TamperDetected ==
    TamperedCall =>
        /\ ~decrypt_call.result.ok
        /\ decrypt_call.result.err = "The MAC does not verify."

\* a call on a share whose c1 had its least significant bit changed
C3_Witness ==
    /\ TamperedCall
    /\ decrypt_call.share = FlipC1(encrypted_share, 0)
    /\ ~decrypt_call.result.ok

\* the MAC over be(c0, L_p) || be(c1, 32) under the key the recipient derives
RecomputedMac(call) ==
    LET fixed_parameters == example_election_parameters.fixed_parameters
        sk == guardian_secret_keys[call.recipient]
        beta == modpow(call.share.c0, sk.secret_coefficients[1], fixed_parameters.p)
        k_i_l == eg_h(h_p_example,
                      <<17>> \o u32_to_be_bytes(call.share.dealer)
                             \o u32_to_be_bytes(call.share.recipient)
                             \o to_be_bytes_left_pad(sk.coefficient_commitments[1],
                                                     L_p(fixed_parameters))
                             \o to_be_bytes_left_pad(call.share.c0, L_p(fixed_parameters))
                             \o to_be_bytes_left_pad(beta, L_p(fixed_parameters)))
        k0 == mac_and_encryption_key(call.share.dealer, call.share.recipient, k_i_l)[1]
    IN  eg_h(k0, to_be_bytes_left_pad(call.share.c0, L_p(fixed_parameters))
                 \o to_be_bytes_left_pad(call.share.c1, L_q(fixed_parameters)))

\* C7: decrypt_and_validate returns a value only if the share's dealer is the
\* public key's guardian, its recipient is the secret key's guardian, and the
\* MAC recomputed over be(c0, L_p) || be(c1, 32) equals c2.
C7_ValueOnlyAfterChecks ==
    (decrypt_call # NoCall /\ decrypt_call.result.ok) =>
        /\ decrypt_call.share.dealer = decrypt_call.dealer
        /\ decrypt_call.share.recipient = decrypt_call.recipient
        /\ RecomputedMac(decrypt_call) = decrypt_call.share.c2

\* a value returned to a recipient other than the dealer, all checks passed
C7_Witness ==
    /\ decrypt_call # NoCall
    /\ decrypt_call.result.ok
    /\ decrypt_call.share.dealer # decrypt_call.share.recipient

-----------------------------------------------------------------------------
(* Lists of guardian public keys: both compute functions *)

\* the guardians' keys: the secret a_0 is drawn, the higher coefficients are 0
JointKeys ==
    {[i \in 1..NumGuardians |->
          GuardianSecretKey_generate(example_election_parameters, i,
              [j \in 1..example_election_parameters.varying_parameters.k |->
                   IF j = 1 THEN secrets[i] ELSE 0])] :
     secrets \in [1..NumGuardians -> Coefficients(example_election_parameters)]}

\* a public key that fails validate: its commitments have order 2
InvalidPublicKey ==
    [i |-> 2,
     coefficient_commitments |->
         [j \in 1..example_election_parameters.varying_parameters.k |->
              example_election_parameters.fixed_parameters.p - 1]]

\* the lists a caller may pass: up to n + 1 keys, each a guardian's or invalid
PublicKeyLists ==
    UNION {[1..m -> {guardian_public_keys[i] : i \in 1..NumGuardians}
                    \cup {InvalidPublicKey}] : m \in 0..(NumGuardians + 1)}

ListPermutations(m) == {f \in [1..m -> 1..m] : \A a, b \in 1..m : f[a] = f[b] => a = b}

JointInit ==
    /\ guardian_secret_keys \in JointKeys
    /\ encrypted_share = NoShare
    /\ decrypt_call = NoCall
    /\ share_vec = <<>>
    /\ key_shares = <<>>
    /\ compute_call = NoCompute
    /\ joint_keys = <<>>
    /\ joint_call = NoJoint
    /\ permuted_call = NoJoint
    /\ scale_call = NoScale
    /\ held_key = NoKey
    /\ encrypt_call = NoEncrypt
    /\ subset_call = NoSubset

JointCompute(public_keys) ==
    /\ joint_call = NoJoint
    /\ joint_call' =
           [guardian_public_keys |-> public_keys,
            result |-> JointElectionPublicKey_compute(example_election_parameters,
                                                      public_keys)]
    /\ UNCHANGED <<shareVars, keyShareVars, permuted_call, scale_call, encryptVars, subset_call>>

\* the same keys in another order
JointComputePermuted(f) ==
    /\ joint_call # NoJoint
    /\ permuted_call = NoJoint
    /\ compute_call = NoCompute
    /\ LET public_keys == [j \in 1..Len(joint_call.guardian_public_keys) |->
                               joint_call.guardian_public_keys[f[j]]]
       IN  permuted_call' =
               [guardian_public_keys |-> public_keys,
                result |-> JointElectionPublicKey_compute(example_election_parameters,
                                                          public_keys)]
    /\ UNCHANGED <<shareVars, keyShareVars, joint_call, scale_call, encryptVars, subset_call>>

\* GuardianSecretKeyShare::compute by recipient l on the same list, with the
\* share that the guardian of each public key deals to l
ComputeOnList(l, xi) ==
    /\ joint_call # NoJoint
    /\ permuted_call = NoJoint
    /\ compute_call = NoCompute
    /\ LET public_keys == joint_call.guardian_public_keys
           shares == [j \in 1..Len(public_keys) |->
                          new(xi, example_election_parameters, h_p_example,
                              guardian_secret_keys[public_keys[j].i],
                              guardian_public_keys[l])]
       IN  compute_call' =
               [guardian_public_keys |-> public_keys,
                encrypted_shares |-> shares,
                recipient |-> l,
                result |-> compute(example_election_parameters, h_p_example,
                                   public_keys, shares, guardian_secret_keys[l])]
    /\ UNCHANGED <<shareVars, share_vec, key_shares, joint_keys, jointVars, scale_call, encryptVars, subset_call>>

JointNext ==
    \/ \E public_keys \in PublicKeyLists : JointCompute(public_keys)
    \/ \E f \in ListPermutations(Len(joint_call.guardian_public_keys)) :
           JointComputePermuted(f)
    \/ \E l \in GuardianIndices(example_election_parameters) : ComputeOnList(l, 1)

JointSpec == JointInit /\ [][JointNext]_vars

-----------------------------------------------------------------------------
(* Scaling of ciphertexts *)

\* the factors tried: 0 .. MaxFactor, beyond q and the order p - 1 of Z_p^*
MaxFactor == 11

\* the data model's ciphertexts: alpha and beta are residues mod p
Ciphertexts ==
    {Ciphertext(alpha, beta) :
         alpha \in 0..(example_election_parameters.fixed_parameters.p - 1),
         beta \in 0..(example_election_parameters.fixed_parameters.p - 1)}

CipherInit == ShareInit

Scale(c, factor) ==
    /\ scale_call = NoScale
    /\ scale_call' =
           [self |-> c, factor |-> factor,
            result |-> scale(c, example_election_parameters.fixed_parameters, factor)]
    /\ UNCHANGED <<shareVars, keyShareVars, jointVars, encryptVars, subset_call>>

CipherNext == \E c \in Ciphertexts, factor \in 0..MaxFactor : Scale(c, factor)

CipherSpec == CipherInit /\ [][CipherNext]_vars

-----------------------------------------------------------------------------
(* Encryption under a joint election public key *)

\* nonces 0 .. MaxNonce (beyond q) and votes 0 .. MaxVote
MaxNonce == 6
MaxVote == 2

\* the joint key of the guardians, as compute returns it
ComputeJointKey ==
    /\ held_key = NoKey
    /\ LET res == JointElectionPublicKey_compute(example_election_parameters,
                                                 guardian_public_keys)
       IN  /\ res.ok
           /\ held_key' = [joint_election_public_key |-> res.joint_election_public_key,
                           origin |-> "compute"]
    /\ UNCHANGED <<shareVars, keyShareVars, jointVars, scale_call, encrypt_call, subset_call>>

\* from_stdioread_validated: a key read from a stream is kept if validate accepts it
ReadValidated(k) ==
    /\ held_key = NoKey
    /\ JointElectionPublicKey_validate([joint_election_public_key |-> k],
                                       example_election_parameters)
    /\ held_key' = [joint_election_public_key |-> k, origin |-> "validate"]
    /\ UNCHANGED <<shareVars, keyShareVars, jointVars, scale_call, encrypt_call, subset_call>>

EncryptWith(nonce, vote) ==
    /\ held_key # NoKey
    /\ encrypt_call = NoEncrypt
    /\ encrypt_call' =
           [NoEncrypt EXCEPT
                !.nonce = nonce, !.vote = vote,
                !.result = encrypt_with(held_key,
                                        example_election_parameters.fixed_parameters,
                                        nonce, vote)]
    /\ UNCHANGED <<shareVars, keyShareVars, jointVars, scale_call, held_key, subset_call>>

\* Ciphertext::scale applied to the ciphertext encrypt_with returned
ScaleEncrypted(factor) ==
    /\ encrypt_call # NoEncrypt
    /\ encrypt_call.factor = -1
    /\ encrypt_call' =
           [encrypt_call EXCEPT
                !.factor = factor,
                !.scaled = scale(encrypt_call.result,
                                 example_election_parameters.fixed_parameters, factor)]
    /\ UNCHANGED <<shareVars, keyShareVars, jointVars, scale_call, held_key, subset_call>>

EncryptInit == JointInit

EncryptNext ==
    \/ ComputeJointKey
    \/ \E k \in 0..(example_election_parameters.fixed_parameters.p + 1) : ReadValidated(k)
    \/ \E nonce \in 0..MaxNonce, vote \in 0..MaxVote : EncryptWith(nonce, vote)
    \/ \E factor \in 0..MaxFactor : ScaleEncrypted(factor)

EncryptSpec == EncryptInit /\ [][EncryptNext]_vars

-----------------------------------------------------------------------------
(* Properties of GuardianSecretKeyShare::compute and of the key sharing *)

Q == example_election_parameters.fixed_parameters.q

\* (a_{1,0} + ... + a_{m,0}) mod q
RECURSIVE SumOfSecrets(_)
SumOfSecrets(m) ==
    IF m = 0 THEN 0
    ELSE (SumOfSecrets(m - 1) + guardian_secret_keys[m].secret_coefficients[1]) % Q

\* (P_1(l) + ... + P_m(l)) mod q, P_j the secret polynomial of guardian j
RECURSIVE SumOfShares(_, _)
SumOfShares(m, l) ==
    IF m = 0 THEN 0
    ELSE (SumOfShares(m - 1, l)
          + PolyEval(guardian_secret_keys[m].secret_coefficients, l, Q)) % Q

\* C2: after every guardian dealt a share to every guardian and every recipient
\* computed its key share p_i, the Lagrange interpolation at x = 0 over all
\* the points (i, p_i) equals the sum of the secrets a_{i,0} mod q.
C2_ThresholdReconstruction ==
    joint_keys # <<>> =>
        /\ joint_keys[2] = SumOfSecrets(NumGuardians)
        /\ joint_keys[1] = joint_keys[2]

\* a finished run whose joint key is not 0, whose secrets sum to q or more, and
\* in which some key share differs from the joint key
C2_Witness ==
    /\ joint_keys # <<>>
    /\ joint_keys[2] # 0
    /\ guardian_secret_keys[1].secret_coefficients[1]
         + guardian_secret_keys[2].secret_coefficients[1]
         + guardian_secret_keys[3].secret_coefficients[1] >= Q
    /\ \E j \in 1..NumGuardians : key_shares[j].p_i # joint_keys[2]

\* C5: a successful compute returns i = recipient_sk.i and p_i = the sum over
\* all n dealers of the dealer's share for the recipient, mod q, whatever the
\* length of the encrypted_shares list.
C5_AllDealersSummed ==
    (compute_call # NoCompute /\ compute_call.result.ok) =>
        /\ compute_call.result.i = compute_call.recipient
        /\ compute_call.result.p_i = SumOfShares(NumGuardians, compute_call.recipient)

\* the positions compute pairs up: zip stops at the shorter list
Pairs(call) ==
    1..Min(Len(call.guardian_public_keys), Len(call.encrypted_shares))

PairFails(call, j) ==
    ~decrypt_and_validate(call.encrypted_shares[j], example_election_parameters,
                          h_p_example, call.guardian_public_keys[j],
                          guardian_secret_keys[call.recipient]).ok

FailingPairs(call) == {j \in Pairs(call) : PairFails(call, j)}

\* the public keys passed validation and coverage, so that compute reaches its
\* loop over the pairs
ReachesPairs(call) ==
    /\ call # NoCompute
    /\ check_guardian_public_keys(example_election_parameters,
                                  call.guardian_public_keys) = NoError

First(set) == CHOOSE j \in set : \A h \in set : j <= h

\* C6: if decrypt_and_validate fails for a pair that compute processes, compute
\* returns the error that names the guardian of that pair's public key, and no
\* key share.
C6_FailureNamesDealer ==
    LET failing == FailingPairs(compute_call)
    IN  (ReachesPairs(compute_call) /\ failing # {}) =>
            /\ ~compute_call.result.ok
            /\ compute_call.result.err.msg
                   = "Could not decrypt and validate share from guardian {}"
            /\ compute_call.result.err.args
                   = <<compute_call.guardian_public_keys[First(failing)].i>>

\* a call in which the share of the second dealer was changed in transit
C6_Witness ==
    /\ ReachesPairs(compute_call)
    /\ FailingPairs(compute_call) = {2}
    /\ compute_call.encrypted_shares[2] = FlipC1(share_vec[2], 0)
    /\ ~compute_call.result.ok

-----------------------------------------------------------------------------
(* Properties of the coverage check and of JointElectionPublicKey::compute *)

DuplicateMsg == "Guardian {} is represented more than once in the guardian public keys"
MissingMsg == "Guardian(s) {iter:?} are not represented in the guardian public keys"

IndexCount(public_keys, i) == Cardinality({j \in 1..Len(public_keys) : public_keys[j].i = i})

AllValid(public_keys) ==
    \A j \in 1..Len(public_keys) :
        GuardianPublicKey_validate(public_keys[j], example_election_parameters)

Repeated(public_keys) == {i \in 1..NumGuardians : IndexCount(public_keys, i) > 1}
Absent(public_keys) == {i \in 1..NumGuardians : IndexCount(public_keys, i) = 0}

CoverageChecked(public_keys, err) ==
    AllValid(public_keys) =>
        /\ err.msg \in {DuplicateMsg, MissingMsg}
               <=> (Repeated(public_keys) # {} \/ Absent(public_keys) # {})
        /\ Repeated(public_keys) # {} =>
               err.msg = DuplicateMsg /\ err.args[1] \in Repeated(public_keys)
        /\ (Repeated(public_keys) = {} /\ Absent(public_keys) # {}) =>
               err.msg = MissingMsg

\* C4: on a list of individually valid guardian public keys, both
\* JointElectionPublicKey::compute and GuardianSecretKeyShare::compute fail with
\* a coverage error iff some index of 1..n is repeated or absent; a repeated
\* index gives the "represented more than once" error (naming a repeated
\* guardian), and an absent index with none repeated gives the distinct "not
\* represented" error.
C4_CoverageCheck ==
    /\ joint_call # NoJoint =>
           CoverageChecked(joint_call.guardian_public_keys, joint_call.result.err)
    /\ compute_call # NoCompute =>
           CoverageChecked(compute_call.guardian_public_keys, compute_call.result.err)

\* both functions were called on n valid keys with one guardian twice and one
\* absent, and both report the duplicate
C4_Witness ==
    /\ joint_call # NoJoint
    /\ compute_call # NoCompute
    /\ AllValid(joint_call.guardian_public_keys)
    /\ Len(joint_call.guardian_public_keys) = NumGuardians
    /\ Repeated(joint_call.guardian_public_keys) # {}
    /\ Absent(joint_call.guardian_public_keys) # {}
    /\ joint_call.result.err.msg = DuplicateMsg
    /\ compute_call.result.err.msg = DuplicateMsg

\* (K_{1,0} * ... * K_{m,0}) mod p over the first m keys of the list
RECURSIVE ProductOfKeys(_, _)
ProductOfKeys(public_keys, m) ==
    IF m = 0 THEN 1
    ELSE (ProductOfKeys(public_keys, m - 1) * public_keys[m].coefficient_commitments[1])
             % example_election_parameters.fixed_parameters.p

\* C8: JointElectionPublicKey::compute on a list of public keys and on any
\* permutation of it either both fail or both succeed with the same K, and on
\* success K is the product of all K_{j,0} mod p, which is g to the sum of the
\* guardians' secrets.
C8_OrderInvariant ==
    permuted_call # NoJoint =>
        /\ joint_call.result.ok = permuted_call.result.ok
        /\ joint_call.result.ok =>
               /\ joint_call.result.joint_election_public_key
                      = permuted_call.result.joint_election_public_key
               /\ joint_call.result.joint_election_public_key
                      = ProductOfKeys(joint_call.guardian_public_keys,
                                      Len(joint_call.guardian_public_keys))
               /\ joint_call.result.joint_election_public_key
                      = modpow(example_election_parameters.fixed_parameters.g,
                               SumOfSecrets(NumGuardians),
                               example_election_parameters.fixed_parameters.p)

\* two successful calls on lists in different orders whose joint key is none
\* of the guardians' keys and not 1
C8_Witness ==
    /\ permuted_call # NoJoint
    /\ joint_call.result.ok
    /\ permuted_call.result.ok
    /\ joint_call.guardian_public_keys # permuted_call.guardian_public_keys
    /\ joint_call.result.joint_election_public_key # 1
    /\ \A j \in 1..NumGuardians :
           joint_call.result.joint_election_public_key
               # public_key_k_i_0(guardian_public_keys[j])

MissingNamed(public_keys, err) ==
    err.msg = MissingMsg =>
        {err.args[j] : j \in 1..Len(err.args)} = Absent(public_keys)

\* C9: whenever guardians are missing from the public keys, the coverage error
\* of JointElectionPublicKey::compute and of GuardianSecretKeyShare::compute
\* names the one-based indices of the missing guardians.
C9_MissingNamedOneBased ==
    /\ joint_call # NoJoint =>
           MissingNamed(joint_call.guardian_public_keys, joint_call.result.err)
    /\ compute_call # NoCompute =>
           MissingNamed(compute_call.guardian_public_keys, compute_call.result.err)

-----------------------------------------------------------------------------
(* Properties of Ciphertext::scale *)

\* C10: for every ciphertext c, scale(c, 1) == c, and for every factor f, 0
\* included, scale(Ciphertext::one(), f) == Ciphertext::one().
C10_ScalingIdentities ==
    scale_call # NoScale =>
        /\ scale_call.factor = 1 => Ciphertext_eq(scale_call.result, scale_call.self)
        /\ Ciphertext_eq(scale_call.self, Ciphertext_one) =>
               Ciphertext_eq(scale_call.result, Ciphertext_one)

\* a ciphertext other than the identity, with distinct components that are
\* neither 0 nor 1, scaled by 1
C10_Witness ==
    /\ scale_call # NoScale
    /\ scale_call.factor = 1
    /\ scale_call.self.alpha > 1
    /\ scale_call.self.beta > 1
    /\ scale_call.self.alpha # scale_call.self.beta
    /\ Ciphertext_eq(scale_call.result, scale_call.self)

-----------------------------------------------------------------------------
(* Properties of encrypt_with *)

FP == example_election_parameters.fixed_parameters

\* C11: encrypt_with(nonce, vote) returns alpha = g^nonce mod p and
\* beta = K^(nonce + vote) mod p, that is K^nonce * K^vote mod p, for every
\* nonce and vote; with nonce 0 and vote 0 the result is the identity
\* ciphertext {1, 1} under any joint key.
C11_EncryptWith ==
    encrypt_call # NoEncrypt =>
        /\ encrypt_call.result.alpha = modpow(FP.g, encrypt_call.nonce, FP.p)
        /\ encrypt_call.result.beta
               = modpow(held_key.joint_election_public_key,
                        encrypt_call.nonce + encrypt_call.vote, FP.p)
        /\ encrypt_call.result.beta
               = (modpow(held_key.joint_election_public_key, encrypt_call.nonce, FP.p)
                  * modpow(held_key.joint_election_public_key, encrypt_call.vote, FP.p))
                     % FP.p
        /\ (encrypt_call.nonce = 0 /\ encrypt_call.vote = 0) =>
               Ciphertext_eq(encrypt_call.result, Ciphertext_one)

\* a vote other than 0 encrypted with a nonce other than 0 under a joint key
\* that compute returned and that is neither 1 nor g
C11_Witness ==
    /\ encrypt_call # NoEncrypt
    /\ held_key.origin = "compute"
    /\ held_key.joint_election_public_key \notin {1, FP.g}
    /\ encrypt_call.nonce > 0
    /\ encrypt_call.vote > 0
    /\ encrypt_call.result.alpha # encrypt_call.result.beta
    /\ encrypt_call.result.beta # 1

\* x is a mod-p residue of the order-q subgroup: x in [1, p) and x^q = 1 mod p
InSubgroup(x) == x \in 1..(FP.p - 1) /\ modpow(x, FP.q, FP.p) = 1

\* C12: every ciphertext that encrypt_with produces under a joint key that
\* compute returned or that validate accepted has alpha and beta in the
\* order-q subgroup, for every nonce and vote.
C12_CiphertextInSubgroup ==
    encrypt_call # NoEncrypt =>
        /\ InSubgroup(encrypt_call.result.alpha)
        /\ InSubgroup(encrypt_call.result.beta)

\* the same for the keys that compute returned
ComputedKeyCiphertextInSubgroup ==
    (encrypt_call # NoEncrypt /\ held_key.origin = "compute") =>
        /\ InSubgroup(encrypt_call.result.alpha)
        /\ InSubgroup(encrypt_call.result.beta)

-----------------------------------------------------------------------------
(* Threshold property *)

\* C13: with the key shares p_i of a full run, the Lagrange interpolation at
\* x = 0 over the points (i, p_i) of any k or more distinct guardians, in any
\* order, equals the sum of the secrets a_{i,0} mod q.
C13_SubsetReconstruction ==
    (/\ subset_call # NoSubset
     /\ Len(subset_call.xs) >= example_election_parameters.varying_parameters.k) =>
        subset_call.result = SumOfSecrets(NumGuardians)

\* exactly k of the n points, not in ascending order, with distinct p_i, and a
\* reconstructed secret that is neither 0 nor one of the p_i used
C13_Witness ==
    /\ subset_call # NoSubset
    /\ Len(subset_call.xs) = example_election_parameters.varying_parameters.k
    /\ Len(subset_call.xs) < NumGuardians
    /\ subset_call.xs[1] > subset_call.xs[2]
    /\ subset_call.ys[1] # subset_call.ys[2]
    /\ subset_call.result = SumOfSecrets(NumGuardians)
    /\ subset_call.result # 0
    /\ \A j \in 1..Len(subset_call.ys) : subset_call.ys[j] # subset_call.result

-----------------------------------------------------------------------------
(* Scaling of an encryption *)

\* C14: for every joint key K of the order-q subgroup, nonce xi, vote v and
\* factor f, scaling encrypt_with(xi, v) by f gives a ciphertext equal to
\* encrypt_with(f * xi mod q, f * v).
C14_ScaleCommutesWithEncrypt ==
    (/\ encrypt_call # NoEncrypt
     /\ encrypt_call.factor # -1
     /\ InSubgroup(held_key.joint_election_public_key)) =>
        Ciphertext_eq(encrypt_call.scaled,
                      encrypt_with(held_key, FP,
                                   (encrypt_call.factor * encrypt_call.nonce) % FP.q,
                                   encrypt_call.factor * encrypt_call.vote))

\* a vote other than 0 under a computed key other than 1, scaled by a factor
\* of 2 or more with f * xi >= q, where scaling changed both components
C14_Witness ==
    /\ encrypt_call # NoEncrypt
    /\ encrypt_call.factor >= 2
    /\ held_key.origin = "compute"
    /\ held_key.joint_election_public_key # 1
    /\ encrypt_call.vote > 0
    /\ encrypt_call.factor * encrypt_call.nonce >= FP.q
    /\ encrypt_call.scaled.alpha # encrypt_call.result.alpha
    /\ encrypt_call.scaled.beta # encrypt_call.result.beta
    /\ encrypt_call.scaled.beta # 1

=============================================================================
